---- MODULE Spec2Model ----
(***************************************************************************)
(* Model of benchmark.py: the orchestration of main() -- schema and table  *)
(* setup, the timed benchmark loop, the averaging and the report -- run    *)
(* against a query engine whose statements succeed (with an elapsed time)  *)
(* or raise trino.exceptions.TrinoQueryError.                              *)
(*                                                                         *)
(* Elapsed times are differences of two time.time() readings, hence whole  *)
(* multiples of the clock's resolution: they are modelled as integers      *)
(* (ticks).  numpy.mean adds the samples and divides by their number; the  *)
(* quotient is kept as a reduced fraction [num, den], which names the      *)
(* double nearest to it.                                                   *)
(***************************************************************************)
EXTENDS Integers, Sequences, FiniteSets, TLC

VARIABLES
    pc,                     \* position of main()
    run,                    \* iteration of "for _ in range(num_runs)", 1-based
    tbl,                    \* index of the table the current loop is at
    qry,                    \* index of the query template the benchmark loop is at
    schema_exists,          \* engine: example.benchmark exists
    catalog,                \* engine: table name -> [options, rows]
    tpch,                   \* engine: rows of tpch.sf10.orders and tpch.sf10.customer
    table_creation_times,   \* create_tables: dict under construction
    table_row_counts,       \* create_tables: dict under construction
    creation_times_list,    \* main
    row_counts,             \* main
    results,                \* benchmark_queries: dict table -> list of times
    query_results_list,     \* main
    average_creation_times, \* main
    average_query_results,  \* main
    stdout,                 \* lines printed by main
    charts,                 \* files saved by plot_results
    logged,                 \* logger.error calls
    error,                  \* exception that left main, or NoError
    issued,                 \* history: statements the engine received, in order
    origin,                 \* history: template index of each entry of results
    recorded,               \* history: the row counts each create_tables returned
    latency,                \* engine: the time a statement usually takes
    failures,               \* history: statements that failed so far
    outliers                \* history: timed statements that took another time

vars == <<pc, run, tbl, qry, schema_exists, catalog, tpch, table_creation_times,
          table_row_counts, creation_times_list, row_counts, results,
          query_results_list, average_creation_times, average_query_results,
          stdout, charts, logged, error, issued, origin, recorded, latency, failures,
          outliers>>

(***************************************************************************)
(* Bounds of the model.                                                    *)
(***************************************************************************)
\* elapsed times are drawn from 1..MaxTime ticks
MaxTime == 2
\* at most MaxOutliers timed statements of one execution take another time than
\* the engine's usual one
MaxOutliers == 1
\* at most MaxFailures statements of one execution fail for a reason of the engine
MaxFailures == 1
\* the source tables hold 1..MaxRows rows
MaxRows == 2

(***************************************************************************)
(* Program constants.                                                      *)
(***************************************************************************)
num_runs == 3

orders_table == "orders_table_without_bloom_filter"

\* create_tables: (table_name, options) pairs of the customer tables
query_templates ==
    << <<"customer_table_without_bloom_filter", {}>>,
       <<"customer_table_with_bloom_filter", {"parquet_bloom_filter_columns"}>>,
       <<"customer_table_with_sorting", {"sorted_by"}>>,
       <<"customer_table_with_sorting_and_bloom_filter",
         {"sorted_by", "parquet_bloom_filter_columns"}>> >>

\* benchmark_queries: the query templates; the last two join the orders table
queries == <<"select_custkey_eq", "count_custkey_gt", "join_select", "join_count">>

JoinQueries == {"join_select", "join_count"}

\* benchmark_queries: the tables the templates are formatted with
table_names ==
    <<"customer_table_without_bloom_filter",
      "customer_table_with_bloom_filter",
      "customer_table_with_sorting",
      "customer_table_with_sorting_and_bloom_filter">>

\* plot_results: its own copy of the query list
plot_queries == <<"select_custkey_eq", "count_custkey_gt", "join_select", "join_count">>

NoError == "none"
None == [none |-> TRUE]
EmptyDict == << >>

(***************************************************************************)
(* Helpers.                                                                *)
(***************************************************************************)
Range(s) == {s[i] : i \in DOMAIN s}

RECURSIVE SumSeq(_)
SumSeq(s) == IF s = << >> THEN 0 ELSE s[1] + SumSeq(Tail(s))

RECURSIVE GCD(_, _)
GCD(a, b) == IF b = 0 THEN a ELSE GCD(b, a % b)

\* a double that holds the whole number v
Float(v) == [num |-> v, den |-> 1]

\* total / count as a double
Divide(total, count) ==
    [num |-> total \div GCD(total, count), den |-> count \div GCD(total, count)]

\* a mean that divides by one less than the number of samples
MeanOverOneLess(samples) == Divide(SumSeq(samples), Len(samples) - 1)

\* numpy.mean of a non-empty list of doubles holding whole numbers
Mean(samples) == Divide(SumSeq(samples), Len(samples))

\* dict[key] = value
Put(dict, key, value) == (key :> value) @@ dict

(***************************************************************************)
(* The statements the program issues.                                      *)
(***************************************************************************)
CreateSchemaStmt == [kind |-> "CREATE_SCHEMA", if_not_exists |-> TRUE]

OrdersCtasStmt ==
    [kind |-> "CTAS", or_replace |-> TRUE, table |-> orders_table,
     options |-> {}, source |-> "orders"]

\* customer tables created without "or replace"
CustomerCtasStmtNoReplace(k) ==
    [kind |-> "CTAS", or_replace |-> FALSE, table |-> query_templates[k][1],
     options |-> query_templates[k][2], source |-> "customer"]

\* customer tables with options created from the orders source
CustomerCtasStmtFromOrders(k) ==
    [kind |-> "CTAS", or_replace |-> TRUE, table |-> query_templates[k][1],
     options |-> query_templates[k][2],
     source |-> IF query_templates[k][2] = {} THEN "customer" ELSE "orders"]

CustomerCtasStmt(k) ==
    [kind |-> "CTAS", or_replace |-> TRUE, table |-> query_templates[k][1],
     options |-> query_templates[k][2], source |-> "customer"]

\* create_tables creates the orders table first, then the customer tables
NumCreated == 1 + Len(query_templates)

CtasStmt(k) == IF k = 1 THEN OrdersCtasStmt ELSE CustomerCtasStmt(k - 1)

CountStmt(k) == [kind |-> "COUNT", table |-> CtasStmt(k).table]

BenchmarkStmt(t, q) == [kind |-> "SELECT", template |-> queries[q], table |-> table_names[t]]

(***************************************************************************)
(* The engine.                                                             *)
(***************************************************************************)
Times == 1..MaxTime

\* tables a statement reads
ReadTables(stmt) ==
    CASE stmt.kind = "COUNT" -> {stmt.table}
      [] stmt.kind = "SELECT" ->
            {stmt.table} \cup (IF stmt.template \in JoinQueries THEN {orders_table} ELSE {})
      [] OTHER -> {}

\* the error the statement is bound to end with in this catalog, or NoError
SemanticError(stmt) ==
    CASE stmt.kind = "CREATE_SCHEMA" /\ schema_exists /\ ~stmt.if_not_exists
            -> "SCHEMA_ALREADY_EXISTS"
      [] stmt.kind = "CTAS" /\ ~schema_exists
            -> "SCHEMA_NOT_FOUND"
      [] stmt.kind = "CTAS" /\ stmt.table \in DOMAIN catalog /\ ~stmt.or_replace
            -> "TABLE_ALREADY_EXISTS"
      [] ~(ReadTables(stmt) \subseteq DOMAIN catalog)
            -> "TABLE_NOT_FOUND"
      [] OTHER -> NoError

\* a CTAS that adds the source's rows to those of the table it finds
CtasTableAppending(stmt) ==
    [options |-> stmt.options,
     rows |-> tpch[stmt.source]
              + (IF stmt.table \in DOMAIN catalog THEN catalog[stmt.table].rows ELSE 0)]

\* rows of the table a CTAS statement leaves: one copy of its source
CtasTable(stmt) == [options |-> stmt.options, rows |-> tpch[stmt.source]]

\* the catalog after the statement succeeded
CatalogAfter(stmt) ==
    IF stmt.kind = "CTAS" THEN Put(catalog, stmt.table, CtasTable(stmt)) ELSE catalog

SchemaAfter(stmt) == schema_exists \/ stmt.kind = "CREATE_SCHEMA"

\* cursor.fetchall() of a COUNT statement: rows[0][0]
FetchCount(stmt) == catalog[stmt.table].rows

\* what cursor.execute may do: succeed in some time, or raise TrinoQueryError
Outcomes(stmt) ==
    IF SemanticError(stmt) # NoError
    THEN {[raised |-> TRUE, code |-> SemanticError(stmt), time |-> 0]}
    ELSE {[raised |-> FALSE, code |-> NoError, time |-> e] :
             e \in {x \in Times : x # latency => outliers < MaxOutliers}}
         \cup (IF failures < MaxFailures
               THEN {[raised |-> TRUE, code |-> "QUERY_FAILED", time |-> 0]}
               ELSE {})

\* what the history keeps of a statement
Entry(stmt, o, timed) ==
    [run |-> run, kind |-> stmt.kind,
     table |-> IF stmt.kind = "CREATE_SCHEMA" THEN "" ELSE stmt.table,
     template |-> IF stmt.kind = "SELECT" THEN stmt.template ELSE "",
     code |-> o.code,
     time |-> IF timed THEN o.time ELSE 0]

\* the engine's side of execute_query: catalog and history.  timed: the caller
\* keeps the elapsed time (it drops that of the schema and COUNT statements)
Engine(stmt, o, timed) ==
    /\ issued' = Append(issued, Entry(stmt, o, timed))
    /\ schema_exists' = IF o.raised THEN schema_exists ELSE SchemaAfter(stmt)
    /\ catalog' = IF o.raised THEN catalog ELSE CatalogAfter(stmt)
    /\ failures' = IF o.code = "QUERY_FAILED" THEN failures + 1 ELSE failures
    /\ outliers' = IF timed /\ ~o.raised /\ o.time # latency
                   THEN outliers + 1 ELSE outliers
    /\ UNCHANGED <<tpch, latency>>

(***************************************************************************)
(* main(), create_schema(), create_tables().                               *)
(***************************************************************************)
\* the tables a complete create_tables leaves in the catalog
BenchmarkCatalog ==
    [t \in {CtasStmt(k).table : k \in 1..NumCreated} |->
        LET k == CHOOSE j \in 1..NumCreated : CtasStmt(j).table = t
        IN  [options |-> CtasStmt(k).options, rows |-> tpch[CtasStmt(k).source]]]

Init ==
    /\ pc = "create_schema"
    /\ run = 0
    /\ tbl = 0
    /\ qry = 0
    /\ tpch \in [{"orders", "customer"} -> 1..MaxRows]
    \* the catalog is empty, or holds what an earlier execution left
    /\ \E earlier \in BOOLEAN :
          /\ schema_exists = earlier
          /\ catalog = IF earlier THEN BenchmarkCatalog ELSE EmptyDict
    /\ table_creation_times = EmptyDict
    /\ table_row_counts = EmptyDict
    /\ creation_times_list = << >>
    /\ row_counts = None
    /\ results = EmptyDict
    /\ query_results_list = << >>
    /\ average_creation_times = EmptyDict
    /\ average_query_results = EmptyDict
    /\ stdout = << >>
    /\ charts = << >>
    /\ logged = << >>
    /\ error = NoError
    /\ issued = << >>
    /\ origin = EmptyDict
    /\ recorded = << >>
    /\ latency \in Times
    /\ failures = 0
    /\ outliers = 0

\* an exception leaves main
Raise(kind) ==
    /\ error' = kind
    /\ pc' = "raised"

\* a create_tables whose handler logs the error and goes on to the benchmark
SetupFailureSwallowed(messages) ==
    /\ logged' = logged \o messages
    /\ error' = error
    /\ pc' = "create_tables_return"

\* execute_query's except clause: log, raise; the caller's own handler, if it
\* has one, logs too and raises again
SetupFailure(messages) ==
    /\ logged' = logged \o messages
    /\ Raise("TrinoQueryError")

\* main: create_schema(conn), then the first iteration enters create_tables
CreateSchema ==
    /\ pc = "create_schema"
    /\ \E o \in Outcomes(CreateSchemaStmt) :
          /\ Engine(CreateSchemaStmt, o, FALSE)
          /\ IF o.raised
             THEN /\ SetupFailure(<<"Query failed">>)
                  /\ UNCHANGED <<run, tbl>>
             ELSE /\ pc' = "create_table"
                  /\ run' = 1
                  /\ tbl' = 1
                  /\ UNCHANGED <<logged, error>>
    /\ UNCHANGED <<qry, table_creation_times, table_row_counts, creation_times_list,
                   row_counts, results, query_results_list, average_creation_times,
                   average_query_results, stdout, charts, origin, recorded>>

\* create_tables: CREATE or replace TABLE ... AS SELECT, timed
CreateTable ==
    /\ pc = "create_table"
    /\ \E o \in Outcomes(CtasStmt(tbl)) :
          /\ Engine(CtasStmt(tbl), o, TRUE)
          /\ IF o.raised
             THEN /\ SetupFailure(<<"Query failed", "Failed to create tables">>)
                  /\ UNCHANGED table_creation_times
             ELSE /\ table_creation_times' =
                        Put(table_creation_times, CtasStmt(tbl).table, o.time)
                  /\ pc' = "count_rows"
                  /\ UNCHANGED <<logged, error>>
    /\ UNCHANGED <<run, tbl, qry, table_row_counts, creation_times_list, row_counts,
                   results, query_results_list, average_creation_times,
                   average_query_results, stdout, charts, origin, recorded>>

\* create_tables: SELECT COUNT(*) of the table just created
CountRows ==
    /\ pc = "count_rows"
    /\ \E o \in Outcomes(CountStmt(tbl)) :
          /\ Engine(CountStmt(tbl), o, FALSE)
          /\ IF o.raised
             THEN /\ SetupFailure(<<"Query failed", "Failed to create tables">>)
                  /\ UNCHANGED <<table_row_counts, tbl>>
             ELSE /\ table_row_counts' =
                        Put(table_row_counts, CountStmt(tbl).table, FetchCount(CountStmt(tbl)))
                  /\ IF tbl < NumCreated
                     THEN /\ tbl' = tbl + 1
                          /\ pc' = "create_table"
                     ELSE /\ tbl' = tbl
                          /\ pc' = "create_tables_return"
                  /\ UNCHANGED <<logged, error>>
    /\ UNCHANGED <<run, qry, table_creation_times, creation_times_list, row_counts,
                   results, query_results_list, average_creation_times,
                   average_query_results, stdout, charts, origin, recorded>>

\* create_tables returns; main keeps its dicts and enters benchmark_queries
CreateTablesReturn ==
    /\ pc = "create_tables_return"
    /\ row_counts' = table_row_counts
    /\ recorded' = Append(recorded, table_row_counts)
    /\ creation_times_list' = Append(creation_times_list, table_creation_times)
    /\ results' = [t \in Range(table_names) |-> << >>]
    /\ origin' = [t \in Range(table_names) |-> << >>]
    /\ tbl' = 1
    /\ qry' = 1
    /\ pc' = "benchmark_query"
    /\ UNCHANGED <<run, schema_exists, catalog, tpch, table_creation_times,
                   table_row_counts, query_results_list, average_creation_times,
                   average_query_results, stdout, charts, logged, error, issued,
                   latency, failures, outliers>>

(***************************************************************************)
(* benchmark_queries().                                                    *)
(***************************************************************************)
\* results[table].append(value)
AppendTiming(dict, table, value) == [dict EXCEPT ![table] = Append(@, value)]

\* a loop that a failed query ends
AdvanceUntilFailure(raised) ==
    IF ~raised /\ qry < Len(queries)
    THEN /\ qry' = qry + 1
         /\ UNCHANGED <<tbl, pc>>
    ELSE IF ~raised /\ tbl < Len(table_names)
    THEN /\ qry' = 1
         /\ tbl' = tbl + 1
         /\ UNCHANGED pc
    ELSE /\ pc' = "benchmark_return"
         /\ UNCHANGED <<tbl, qry>>

\* a handler that keeps the failed query's place with a zero
OnQueryErrorPlaceholder(dict, table) == [dict EXCEPT ![table] = Append(@, 0)]

\* the except clause of the loop appends nothing
OnQueryError(dict, table) == dict

\* the nested for loops after an iteration, whether or not the query raised
Advance(raised) ==
    IF qry < Len(queries)
    THEN /\ qry' = qry + 1
         /\ UNCHANGED <<tbl, pc>>
    ELSE IF tbl < Len(table_names)
    THEN /\ qry' = 1
         /\ tbl' = tbl + 1
         /\ UNCHANGED pc
    ELSE /\ pc' = "benchmark_return"
         /\ UNCHANGED <<tbl, qry>>

\* one iteration of the nested loop: format, execute, append or log
BenchmarkQuery ==
    /\ pc = "benchmark_query"
    /\ \E o \in Outcomes(BenchmarkStmt(tbl, qry)) :
          /\ Engine(BenchmarkStmt(tbl, qry), o, TRUE)
          /\ IF o.raised
             THEN /\ logged' = logged \o <<"Query failed", "Failed to execute query">>
                  /\ results' = OnQueryError(results, table_names[tbl])
                  /\ origin' = OnQueryError(origin, table_names[tbl])
             ELSE /\ results' = AppendTiming(results, table_names[tbl], o.time)
                  /\ origin' = AppendTiming(origin, table_names[tbl], qry)
                  /\ UNCHANGED logged
          /\ Advance(o.raised)
    /\ UNCHANGED <<run, table_creation_times, table_row_counts, creation_times_list,
                   row_counts, query_results_list, average_creation_times,
                   average_query_results, stdout, charts, error, recorded>>

\* a loop whose later runs skip create_tables
NextRunWithoutSetup ==
    IF run < num_runs
    THEN /\ run' = run + 1
         /\ tbl' = 1
         /\ UNCHANGED <<table_creation_times, table_row_counts>>
         /\ pc' = "benchmark_query"
    ELSE /\ pc' = "average_creation_times"
         /\ UNCHANGED <<run, tbl, table_creation_times, table_row_counts>>

\* main's loop after benchmark_queries returned: the next run starts with
\* create_tables, or the loop ends
NextRun ==
    IF run < num_runs
    THEN /\ run' = run + 1
         /\ tbl' = 1
         /\ table_creation_times' = EmptyDict
         /\ table_row_counts' = EmptyDict
         /\ pc' = "create_table"
    ELSE /\ pc' = "average_creation_times"
         /\ UNCHANGED <<run, tbl, table_creation_times, table_row_counts>>

\* benchmark_queries returns; main appends its results
BenchmarkReturn ==
    /\ pc = "benchmark_return"
    /\ query_results_list' = Append(query_results_list, results)
    /\ NextRun
    /\ UNCHANGED <<qry, schema_exists, catalog, tpch, creation_times_list, row_counts,
                   results, average_creation_times, average_query_results, stdout,
                   charts, logged, error, issued, origin, recorded, latency, failures,
                   outliers>>

(***************************************************************************)
(* main(): the averages and the report.                                    *)
(***************************************************************************)
\* the keys of the creation dicts, in insertion order
CreatedTables == [k \in 1..NumCreated |-> CtasStmt(k).table]

\* [run[table] for run in creation_times_list]
CreationSamples(table) ==
    [r \in 1..Len(creation_times_list) |-> creation_times_list[r][table]]

AverageCreationTimes ==
    /\ pc = "average_creation_times"
    /\ average_creation_times' =
          [table \in DOMAIN creation_times_list[1] |-> Mean(CreationSamples(table))]
    /\ pc' = "average_query_results"
    /\ UNCHANGED <<run, tbl, qry, schema_exists, catalog, tpch, table_creation_times,
                   table_row_counts, creation_times_list, row_counts, results,
                   query_results_list, average_query_results, stdout, charts, logged,
                   error, issued, origin, recorded, latency, failures,
                   outliers>>

\* [run[table][i] for run in query_results_list]
QuerySamples(table, i) ==
    [r \in 1..Len(query_results_list) |-> query_results_list[r][table][i]]

\* run[table][i] is out of range for some run
AverageIndexError ==
    \E table \in DOMAIN query_results_list[1] :
       \E i \in 1..Len(query_results_list[1][table]) :
          \E r \in 1..Len(query_results_list) : i > Len(query_results_list[r][table])

AverageQueryResults ==
    /\ pc = "average_query_results"
    /\ IF AverageIndexError
       THEN /\ Raise("IndexError")
            /\ UNCHANGED average_query_results
       ELSE /\ average_query_results' =
                  [table \in DOMAIN query_results_list[1] |->
                      [i \in 1..Len(query_results_list[1][table]) |->
                          Mean(QuerySamples(table, i))]]
            /\ pc' = "print"
            /\ UNCHANGED error
    /\ UNCHANGED <<run, tbl, qry, schema_exists, catalog, tpch, table_creation_times,
                   table_row_counts, creation_times_list, row_counts, results,
                   query_results_list, average_creation_times, stdout, charts, logged,
                   issued, origin, recorded, latency, failures,
                   outliers>>

RECURSIVE Flatten(_)
Flatten(ss) == IF ss = << >> THEN << >> ELSE ss[1] \o Flatten(Tail(ss))

\* "Average performance for {table}:" and its "Query {i+1}: {time} seconds" lines
PerformanceLines(table) ==
    <<[line |-> "Average performance", table |-> table]>>
    \o [i \in 1..Len(average_query_results[table]) |->
          [line |-> "Query", index |-> i, value |-> average_query_results[table][i]]]

CreationLine(table) ==
    [line |-> "Average creation time", table |-> table,
     value |-> average_creation_times[table]]

RowCountLine(table) ==
    [line |-> "Row count", table |-> table, value |-> row_counts[table]]

PrintResults ==
    /\ pc = "print"
    /\ stdout' = Flatten([t \in 1..Len(table_names) |-> PerformanceLines(table_names[t])])
                 \o [k \in 1..NumCreated |-> CreationLine(CreatedTables[k])]
                 \o [k \in 1..NumCreated |-> RowCountLine(CreatedTables[k])]
    /\ pc' = "plot"
    /\ UNCHANGED <<run, tbl, qry, schema_exists, catalog, tpch, table_creation_times,
                   table_row_counts, creation_times_list, row_counts, results,
                   query_results_list, average_creation_times, average_query_results,
                   charts, logged, error, issued, origin, recorded, latency, failures,
                   outliers>>

\* plot_results: average_query_results[table][i] is out of range for some table
PlotIndexError(i) == \E t \in 1..Len(table_names) : i > Len(average_query_results[table_names[t]])

\* the chart of query i: one bar per table
QueryChart(i) ==
    [file |-> "execution_time_query", index |-> i,
     bars |-> [t \in 1..Len(table_names) |-> average_query_results[table_names[t]][i]]]

CreationChart ==
    [file |-> "table_creation_times", index |-> 0,
     bars |-> [t \in 1..Len(table_names) |-> average_creation_times[table_names[t]]]]

\* the number of query charts saved before the loop ends or raises
RECURSIVE SavedQueryCharts(_)
SavedQueryCharts(i) ==
    IF i > Len(plot_queries) \/ PlotIndexError(i) THEN i - 1 ELSE SavedQueryCharts(i + 1)

PlotResults ==
    /\ pc = "plot"
    /\ LET saved == SavedQueryCharts(1) IN
          IF saved < Len(plot_queries)
          THEN /\ charts' = [i \in 1..saved |-> QueryChart(i)]
               /\ Raise("IndexError")
          ELSE /\ charts' = [i \in 1..saved |-> QueryChart(i)] \o <<CreationChart>>
               /\ pc' = "done"
               /\ UNCHANGED error
    /\ UNCHANGED <<run, tbl, qry, schema_exists, catalog, tpch, table_creation_times,
                   table_row_counts, creation_times_list, row_counts, results,
                   query_results_list, average_creation_times, average_query_results,
                   stdout, logged, issued, origin, recorded, latency, failures,
                   outliers>>

Next ==
    \/ CreateSchema
    \/ CreateTable
    \/ CountRows
    \/ CreateTablesReturn
    \/ BenchmarkQuery
    \/ BenchmarkReturn
    \/ AverageCreationTimes
    \/ AverageQueryResults
    \/ PrintResults
    \/ PlotResults

Spec == Init /\ [][Next]_vars

(***************************************************************************)
(* Properties.                                                             *)
(***************************************************************************)
Failed(e) == e.code # NoError

LastIssued == issued[Len(issued)]

\* some statement of create_schema or create_tables raised
SetupFailed == \E n \in DOMAIN issued : issued[n].kind # "SELECT" /\ Failed(issued[n])

\* the n-th (table, template) pair of the benchmark, table-major
PairTable(n) == table_names[((n - 1) \div Len(queries)) + 1]

PairTemplate(n) == queries[((n - 1) % Len(queries)) + 1]

NumPairs == Len(table_names) * Len(queries)

IsBenchmarkOf(e, r) == e.kind = "SELECT" /\ e.run = r

\* the benchmark statements the engine received in run r, in order
Benchmarked(r) == SelectSeq(issued, LAMBDA e : IsBenchmarkOf(e, r))

IsFailedBenchmark(e) == e.kind = "SELECT" /\ Failed(e)

IsBenchmarkLog(m) == m = "Failed to execute query"

\* C1: in every run the benchmark attempts the (table, template) pairs in
\* table-major order, each once and none again, whatever failed before: the
\* attempts of the run are always a prefix of the 16 pairs, as long as the loop's
\* position says, and all 16 once benchmark_queries returned; every failed
\* attempt is logged by benchmark_queries, and none makes main raise.
C1_EveryPairAttemptedOnce ==
    /\ run >= 1 =>
          LET attempts == Benchmarked(run)
              n == Len(attempts)
          IN  /\ n <= NumPairs
              /\ \A k \in 1..n : /\ attempts[k].table = PairTable(k)
                                 /\ attempts[k].template = PairTemplate(k)
              /\ pc \in {"create_table", "count_rows", "create_tables_return"} => n = 0
              /\ pc = "benchmark_query" => n = (tbl - 1) * Len(queries) + (qry - 1)
              /\ pc = "benchmark_return" => n = NumPairs
              /\ Len(query_results_list) = run => n = NumPairs
    /\ Len(SelectSeq(logged, IsBenchmarkLog)) = Len(SelectSeq(issued, IsFailedBenchmark))
    /\ (issued # << >> /\ LastIssued.kind = "SELECT") => error # "TrinoQueryError"

\* benchmark_queries returned although its very first query failed
C1_Witness ==
    /\ pc = "benchmark_return"
    /\ LET attempts == Benchmarked(run)
       IN  /\ Len(attempts) = NumPairs
           /\ Failed(attempts[1])
           /\ ~Failed(attempts[NumPairs])

\* C2: once a statement of create_schema or create_tables has failed, the failure
\* is logged, main has raised the engine's error, the failed statement is the last
\* one the engine received (no benchmark query of that or a later run follows),
\* and no average is computed, nothing printed and nothing plotted.
C2_SetupFailureIsFatal ==
    SetupFailed =>
        /\ pc = "raised"
        /\ error = "TrinoQueryError"
        /\ LastIssued.kind # "SELECT" /\ Failed(LastIssued)
        /\ \A n \in 1..(Len(issued) - 1) : issued[n].kind = "SELECT" \/ ~Failed(issued[n])
        /\ logged # << >>
        /\ IF LastIssued.kind = "CREATE_SCHEMA"
           THEN logged[Len(logged)] = "Query failed"
           ELSE /\ logged[Len(logged)] = "Failed to create tables"
                /\ logged[Len(logged) - 1] = "Query failed"
        /\ Len(query_results_list) = (IF LastIssued.run = 0 THEN 0 ELSE LastIssued.run - 1)
        /\ average_creation_times = EmptyDict
        /\ average_query_results = EmptyDict
        /\ stdout = << >>
        /\ charts = << >>

\* create_tables failed in the second run, after a whole first run
C2_Witness ==
    /\ pc = "raised"
    /\ SetupFailed
    /\ LastIssued.run = 2
    /\ LastIssued.kind = "CTAS"
    /\ Len(query_results_list) = 1

\* the benchmark statement of template q on the t-th table in run r
BenchmarkEntry(r, t, q) == Benchmarked(r)[(t - 1) * Len(queries) + q]

\* C3 (as claimed): once the averages are computed, the i-th average of every
\* table is the mean of the elapsed times of the i-th template on that table,
\* one from each run, none of which failed.
C3_AverageIsOfTemplate ==
    average_query_results # EmptyDict =>
        \A t \in 1..Len(table_names) :
           \A i \in DOMAIN average_query_results[table_names[t]] :
              LET es == [r \in 1..num_runs |-> BenchmarkEntry(r, t, i)]
              IN  /\ \A r \in 1..num_runs : ~Failed(es[r])
                  /\ average_query_results[table_names[t]][i]
                        = Mean([r \in 1..num_runs |-> es[r].time])

\* C4 (as claimed): main ends with an exception only when a setup statement
\* failed; otherwise it ends having printed and saved all charts.
C4_EndsNormallyUnlessSetupFailed ==
    /\ pc = "raised" => SetupFailed
    /\ pc = "done" => /\ stdout # << >>
                      /\ Len(charts) = Len(plot_queries) + 1

\* C5: a table whose creation times are the same value v in every run has the
\* average creation time v, and a (table, index) whose query times are the same
\* value v in every run has the average v.
C5_IdenticalSamplesAverage ==
    /\ average_creation_times # EmptyDict =>
          \A k \in 1..NumCreated :
             LET t == CreatedTables[k]
                 v == creation_times_list[1][t]
             IN  (\A r \in 1..num_runs : creation_times_list[r][t] = v)
                    => average_creation_times[t] = Float(v)
    /\ average_query_results # EmptyDict =>
          \A t \in Range(table_names) :
             \A i \in DOMAIN average_query_results[t] :
                LET v == query_results_list[1][t][i]
                IN  (\A r \in 1..num_runs : query_results_list[r][t][i] = v)
                       => average_query_results[t][i] = Float(v)

\* averages of identical samples above one tick, beside one of differing samples
C5_Witness ==
    /\ pc = "print"
    /\ latency > 1
    /\ \A r \in 1..num_runs : creation_times_list[r][orders_table] = latency
    /\ average_creation_times[orders_table] = Float(latency)
    /\ \A r \in 1..num_runs : query_results_list[r][table_names[1]][2] = latency
    /\ average_query_results[table_names[1]][2] = Float(latency)
    /\ \E r \in 1..num_runs : query_results_list[r][table_names[1]][1] # latency

\* the "Row count" line of the k-th created table: the lines end with them
RowCountLineOf(k) == stdout[Len(stdout) - NumCreated + k]

\* the row counts create_tables returned for a table, one per run so far
RecordedCounts(table) == [r \in 1..Len(recorded) |-> recorded[r][table]]

\* C6: the row count printed for a table, times the number of runs, is the sum of
\* the row counts create_tables returned for it, one per run; and already while
\* the runs go on, the row count main holds for a table is the average of those
\* returned so far.
C6_ReportedRowCountIsAverage ==
    /\ row_counts # None =>
          \A k \in 1..NumCreated :
             row_counts[CreatedTables[k]] * Len(recorded)
                = SumSeq(RecordedCounts(CreatedTables[k]))
    /\ stdout # << >> =>
          /\ Len(recorded) = num_runs
          /\ \A k \in 1..NumCreated :
                /\ RowCountLineOf(k).line = "Row count"
                /\ RowCountLineOf(k).table = CreatedTables[k]
                /\ RowCountLineOf(k).value * num_runs
                      = SumSeq(RecordedCounts(CreatedTables[k]))

\* row counts printed after three runs over sources of different sizes
C6_Witness ==
    /\ pc = "plot"
    /\ tpch["orders"] # tpch["customer"]
    /\ RowCountLineOf(1).value = tpch["orders"]
    /\ RowCountLineOf(NumCreated).value = tpch["customer"]

AlreadyExists(e) == e.code \in {"SCHEMA_ALREADY_EXISTS", "TABLE_ALREADY_EXISTS"}

\* C7: no statement of the setup ends with an already-exists error, whatever the
\* catalog held, and from the first complete create_tables on the catalog holds
\* the schema and exactly the five benchmark tables, each with its own options
\* and one copy of its source's rows.
C7_SetupIdempotent ==
    /\ SelectSeq(issued, AlreadyExists) = << >>
    /\ creation_times_list # << >> => /\ schema_exists
                                      /\ catalog = BenchmarkCatalog

\* the schema statement and the first CTAS succeeded on a catalog that held all
\* five tables before
C7_Witness ==
    /\ run = 1
    /\ pc = "count_rows"
    /\ tbl = 1
    /\ DOMAIN catalog = Range(CreatedTables)
    /\ ~Failed(issued[1]) /\ ~Failed(issued[2])

\* C8: the row count recorded for a customer table created with options equals
\* the one recorded for the customer table created without.
C8_SameRowCountAsPlain ==
    \A k \in 2..Len(query_templates) :
       /\ {query_templates[1][1], query_templates[k][1]} \subseteq DOMAIN table_row_counts
             => table_row_counts[query_templates[k][1]]
                   = table_row_counts[query_templates[1][1]]
       /\ row_counts # None
             => row_counts[query_templates[k][1]] = row_counts[query_templates[1][1]]

\* the second create_tables is complete, over sources of different sizes
C8_Witness ==
    /\ pc = "create_tables_return"
    /\ run = 2
    /\ tpch["orders"] # tpch["customer"]
    /\ DOMAIN table_row_counts = Range(CreatedTables)

IsSetupOf(e, r) == e.kind \in {"CTAS", "COUNT"} /\ e.run = r

\* the statements of create_tables the engine received in run r, in order
SetupOf(r) == SelectSeq(issued, LAMBDA e : IsSetupOf(e, r))

\* C9: the schema statement is the first statement and the only one of its kind;
\* the runs follow each other; when a benchmark query is issued, the statements
\* of create_tables of the same run are all before it, succeeded, and are the
\* CTAS and COUNT of the orders table and of the four customer tables in order,
\* and the tables the query reads are in the catalog; when a statement of
\* create_tables is issued, no benchmark query of the same run is before it.
C9_SetupBeforeBenchmark ==
    issued # << >> =>
        /\ issued[1].kind = "CREATE_SCHEMA"
        /\ Len(issued) > 1 => /\ LastIssued.kind # "CREATE_SCHEMA"
                              /\ LastIssued.run >= 1
                              /\ issued[Len(issued) - 1].run <= LastIssued.run
        /\ LastIssued.kind = "SELECT" =>
              LET setup == SetupOf(LastIssued.run)
              IN  /\ Len(setup) = 2 * NumCreated
                  /\ \A k \in 1..NumCreated :
                        /\ setup[2 * k - 1].kind = "CTAS"
                        /\ setup[2 * k].kind = "COUNT"
                        /\ setup[2 * k - 1].table = CreatedTables[k]
                        /\ setup[2 * k].table = CreatedTables[k]
                        /\ ~Failed(setup[2 * k - 1]) /\ ~Failed(setup[2 * k])
                  /\ {LastIssued.table, orders_table} \subseteq DOMAIN catalog
                  /\ LastIssued.code # "TABLE_NOT_FOUND"
        /\ LastIssued.kind \in {"CTAS", "COUNT"} => Benchmarked(LastIssued.run) = << >>

\* a benchmark query of the third run
C9_Witness ==
    /\ run = num_runs
    /\ pc = "benchmark_return"
    /\ LastIssued.kind = "SELECT"
    /\ Len(SetupOf(num_runs)) = 2 * NumCreated

\* the templates of the t-th table that succeeded, given the benchmark
\* statements b of a run
Succeeded(b, t) == {q \in 1..Len(queries) : ~Failed(b[(t - 1) * Len(queries) + q])}

\* what C10 says of the t-th table besides the position of template i: the list
\* is as long as the number of its queries that succeeded, its entries are the
\* times of succeeded templates, and they are in template order
C10_Lists(b, t) ==
    LET times == results[table_names[t]]
        from == origin[table_names[t]]
    IN  /\ DOMAIN from = DOMAIN times
        /\ Len(times) = Cardinality(Succeeded(b, t))
        /\ \A i \in DOMAIN times :
              /\ from[i] \in Succeeded(b, t)
              /\ times[i] = b[(t - 1) * Len(queries) + from[i]].time
              /\ i > 1 => from[i - 1] < from[i]

\* C10 (as claimed): when benchmark_queries returns, every list is as long as the
\* number of its table's queries that succeeded, in template order, and position
\* i holds the time of template i iff no template below i failed.
C10_PositionIffNoLowerFailed ==
    pc = "benchmark_return" =>
        LET b == Benchmarked(run)
        IN  \A t \in 1..Len(table_names) :
               /\ C10_Lists(b, t)
               /\ \A i \in DOMAIN results[table_names[t]] :
                     (origin[table_names[t]][i] = i) <=> (1..(i - 1) \subseteq Succeeded(b, t))

\* C10 (amended): position i holds the time of template i iff neither template i
\* nor a template below it failed.
C10_PositionIffNoneUpToFailed ==
    pc = "benchmark_return" =>
        LET b == Benchmarked(run)
        IN  \A t \in 1..Len(table_names) :
               /\ C10_Lists(b, t)
               /\ \A i \in DOMAIN results[table_names[t]] :
                     (origin[table_names[t]][i] = i) <=> (1..i \subseteq Succeeded(b, t))

\* benchmark_queries returns a list whose second template failed
C10_Witness ==
    /\ pc = "benchmark_return"
    /\ Succeeded(Benchmarked(run), 1) = {1, 3, 4}
    /\ origin[table_names[1]] = <<1, 3, 4>>

====
